---- MODULE Spec2Model ----
(***************************************************************************)
(* Model of the devcontainer-nextjs template: the Jest configuration       *)
(* (jest.config.ts), the ESLint flat configuration and the documented      *)
(* workflows.                                                              *)
(*                                                                         *)
(* A path is a sequence of segments; a segment is the sequence of its      *)
(* dot-separated parts, so "page.test.tsx" is <<"page","test","tsx">>,     *)
(* "src" is <<"src">> and ".next" is <<"", "next">>.                       *)
(***************************************************************************)
EXTENDS Naturals, Sequences, FiniteSets, TLC

VARIABLES
    rootDir,     \* the project root Jest and ESLint run in (absolute path)
    file,        \* the absolute path of the file under consideration
    jest,        \* what the Jest run decided about file
    lint,        \* what the ESLint run decided about file
    specifier,   \* a module specifier a test file imports (sequence of characters)
    resolved,    \* what Jest's module-name mapping made of specifier
    prNode,      \* PR creation workflow: the step the author is at
    prVisited,   \* PR creation workflow: the steps gone through so far
    wf,          \* the documented development workflow being followed
    wfStep,      \* the number of its steps carried out so far
    dev,         \* what exists for the feature: tests, their approval, implementation
    commit,      \* commit workflow: the step reached, the steps gone through, the attempts
    change,      \* a change about to be committed: what is wrong with it
    qc,          \* the quality commands run on change, what they reported, the outcome
    imports,     \* the import declarations of a linted file, in file order
    decl,        \* a declaration (variable, argument, caught error) of a linted file
    report,      \* what the lint rules reported about imports and decl
    issue,       \* a GitHub issue: its fields, the checks made, its lifecycle stage
    mw,          \* a request at the authentication middleware, and the response
    post,        \* a request at the POST /api/users handler: body, position, response
    fwf          \* a call of fetchWithFallback: fetcher, fallback, position, result

vars == <<rootDir, file, jest, lint, specifier, resolved, prNode, prVisited, wf, wfStep, dev,
          commit, change, qc, imports, decl, report, issue, mw, post, fwf>>
fileVars == <<file, jest, lint>>
resolveVars == <<specifier, resolved>>
flowVars == <<prNode, prVisited, wf, wfStep, dev, commit>>
gateVars == <<change, qc>>
ruleVars == <<imports, decl, report>>
laterVars == <<gateVars, ruleVars, issue>>
exampleVars == <<mw, post, fwf>>

\* ------------------------------------------------------------------ bounds
MaxDirs == 3          \* directories between rootDir and the file
MaxSpecifierLen == 3  \* characters of a module specifier

\* ------------------------------------------------------------- path helpers
Seg(name) == <<name>>
DotNext == <<"", "next">>
Last(s) == s[Len(s)]
SeqSuffix(s, n) == SubSeq(s, Len(s) - n + 1, Len(s))
Ext(seg) == IF Len(seg) >= 2 THEN Last(seg) ELSE ""

RootDirs == {<<Seg("app")>>, <<Seg("proj")>>}

DirNames ==
    {Seg("src"), Seg("tests"), Seg("__tests__"), Seg("app"), DotNext,
     Seg("node_modules"), Seg("build")}

LfStem == "a\nb"     \* a name holding a line terminator
WithLineTerminator == {LfStem}
Stems == {"page", LfStem}
Markers == {"test", "spec"}
Exts == {"js", "jsx", "ts", "tsx", "mjs", "json"}

FileNames ==
    {<<s, e>> : s \in Stems, e \in Exts}
        \cup {<<"page", m, e>> : m \in Markers, e \in Exts}

RECURSIVE DirSeqs(_)
DirSeqs(n) ==
    IF n = 0 THEN {<<>>}
    ELSE DirSeqs(n - 1) \cup
         {Append(ds, d) : ds \in {x \in DirSeqs(n - 1) : Len(x) = n - 1}, d \in DirNames}

\* the files of a project rooted at root
ProjectFiles(root) ==
    {root \o Append(ds, f) : ds \in DirSeqs(MaxDirs), f \in FileNames}

\* path relative to root (the caller knows root is a prefix of p)
Relative(root, p) == SubSeq(p, Len(root) + 1, Len(p))

\* --------------------------------------------------------------- glob match
\* pattern elements: a literal segment, a globstar, "*.<suffix>" for a set of
\* suffixes (brace expansion)
Lit(seg) == [t |-> "lit", s |-> {seg}]
GlobStar == [t |-> "globstar", s |-> {}]
StarDot(suffixes) == [t |-> "stardot", s |-> suffixes]

SegMatch(pe, seg) ==
    CASE pe.t = "lit" -> seg \in pe.s
      [] pe.t = "stardot" ->
            \E suf \in pe.s : Len(seg) > Len(suf) /\ SeqSuffix(seg, Len(suf)) = suf
      [] OTHER -> FALSE

RECURSIVE GlobMatch(_, _)
GlobMatch(pat, p) ==
    IF pat = <<>> THEN p = <<>>
    ELSE IF Head(pat).t = "globstar"
         THEN GlobMatch(Tail(pat), p) \/ (p # <<>> /\ GlobMatch(pat, Tail(p)))
         ELSE p # <<>> /\ SegMatch(Head(pat), Head(p)) /\ GlobMatch(Tail(pat), Tail(p))

\* -------------------------------------------------------------- regex search
\* A testPathIgnorePatterns entry "<rootDir>/a/b/" is an unanchored regular
\* expression: it matches when the segments occur consecutively anywhere in
\* the path and are followed by a "/" (one more segment at least).  An
\* unescaped "." stands for any one character.
AnyChar == {".", "x"}
ReLit(name) == [t |-> "lit", name |-> name]
ReDot(rest) == [t |-> "dot", name |-> rest]

ReSegMatch(re, seg) ==
    IF re.t = "lit" THEN seg = <<re.name>>
    ELSE seg = <<"", re.name>> \/ \E c \in AnyChar \ {"."} : seg = <<c \o re.name>>

RegexAt(re, p, i) ==
    /\ i + Len(re) <= Len(p)
    /\ \A k \in 1..Len(re) : ReSegMatch(re[k], p[i + k - 1])

RegexSearch(re, p) == \E i \in 1..Len(p) : RegexAt(re, p, i)

RootRe(root) == [k \in 1..Len(root) |-> ReLit(root[k][1])]

\* ------------------------------------------------------------ jest.config.ts
TestExts == {"js", "jsx", "ts", "tsx"}

testPathIgnorePatterns(root) ==
    { RootRe(root) \o <<ReDot("next")>>,
      RootRe(root) \o <<ReLit("node_modules")>>,
      RootRe(root) \o <<ReLit("tests")>> }

RootGlob(root) == [k \in 1..Len(root) |-> Lit(root[k])]

\* mutant: the patterns without the src/ directory
testMatchAnywhere(root) ==
    { RootGlob(root) \o
        <<GlobStar, Lit(Seg("__tests__")), GlobStar, StarDot({<<e>> : e \in TestExts})>>,
      RootGlob(root) \o
        <<GlobStar, StarDot({<<m, e>> : m \in {"spec", "test"}, e \in TestExts})>> }

testMatch(root) ==
    { RootGlob(root) \o
        <<Lit(Seg("src")), GlobStar, Lit(Seg("__tests__")), GlobStar,
          StarDot({<<e>> : e \in TestExts})>>,
      RootGlob(root) \o
        <<Lit(Seg("src")), GlobStar,
          StarDot({<<m, e>> : m \in {"spec", "test"}, e \in TestExts})>> }

\* mutant: the custom settings are not applied and Jest runs on its defaults
jestDefaultConfig(root) ==
    [ testPathIgnorePatterns |-> { <<ReLit("node_modules")>> },
      testMatch |->
        { <<GlobStar, Lit(Seg("__tests__")), GlobStar, StarDot({<<e>> : e \in TestExts})>>,
          <<GlobStar, StarDot({<<m, e>> : m \in {"spec", "test"}, e \in TestExts})>> } ]

customJestConfig(root) ==
    [ testPathIgnorePatterns |-> testPathIgnorePatterns(root),
      testMatch |-> testMatch(root) ]

MatchesTestMatch(cfg, p) == \E g \in cfg.testMatch : GlobMatch(g, p)
PathIgnored(cfg, p) == \E re \in cfg.testPathIgnorePatterns : RegexSearch(re, p)

\* Jest's test selection for a path
IsTest(root, p) ==
    LET cfg == customJestConfig(root)
    IN  MatchesTestMatch(cfg, p) /\ ~PathIgnored(cfg, p)

\* the custom transform rule '^.+\\.(ts|tsx)$': anchored at both ends, and "."
\* matches any character except a line terminator
HasLineTerminator(p) ==
    \E i \in 1..Len(p) : \E k \in 1..Len(p[i]) : p[i][k] \in WithLineTerminator

\* mutant: the rule written for .ts alone
TransformRuleTsOnly(p) ==
    /\ Len(Last(p)) >= 2
    /\ Ext(Last(p)) = "ts"
    /\ ~HasLineTerminator(p)

TransformRuleMatches(p) ==
    /\ Len(Last(p)) >= 2
    /\ Ext(Last(p)) \in {"ts", "tsx"}
    /\ ~HasLineTerminator(p)

transform(p) == IF TransformRuleMatches(p) THEN "ts-jest" ELSE "none"

\* moduleNameMapper: '^@/(.*)$' -> '<rootDir>/src/$1'.  A string is a sequence
\* of tokens; "." matches any character except a line terminator, so the
\* pattern matches "@/" followed by characters none of which ends a line.
SpecifierChars == {"@", "/", "a", "\n"}
IsLineTerminator(c) == c \in {"\n", "\r"}

RECURSIVE SeqsUpTo(_, _)
SeqsUpTo(S, n) ==
    IF n = 0 THEN {<<>>}
    ELSE SeqsUpTo(S, n - 1) \cup
         {Append(x, c) : x \in {y \in SeqsUpTo(S, n - 1) : Len(y) = n - 1}, c \in S}

\* mutant: the capture group anchored on "@" alone ('^@(.*)$')
AliasCaptureNoSlash(spec) ==
    IF /\ Len(spec) >= 1
       /\ spec[1] = "@"
       /\ \A i \in 2..Len(spec) : ~IsLineTerminator(spec[i])
    THEN [matched |-> TRUE, group1 |-> SubSeq(spec, 2, Len(spec))]
    ELSE [matched |-> FALSE, group1 |-> <<>>]

\* mutant: the pattern without its '^' ('@/(.*)$'), found anywhere
AliasCaptureUnanchored(spec) ==
    LET starts == {i \in 1..(Len(spec) - 1) :
                      /\ spec[i] = "@"
                      /\ spec[i + 1] = "/"
                      /\ \A k \in (i + 2)..Len(spec) : ~IsLineTerminator(spec[k])}
    IN  IF starts # {}
        THEN [matched |-> TRUE,
              group1 |-> SubSeq(spec, (CHOOSE i \in starts : \A j \in starts : i <= j) + 2,
                                Len(spec))]
        ELSE [matched |-> FALSE, group1 |-> <<>>]

\* the match of '^@/(.*)$' and its capture group
AliasCapture(spec) ==
    IF /\ Len(spec) >= 2
       /\ spec[1] = "@"
       /\ spec[2] = "/"
       /\ \A i \in 3..Len(spec) : ~IsLineTerminator(spec[i])
    THEN [matched |-> TRUE, group1 |-> SubSeq(spec, 3, Len(spec))]
    ELSE [matched |-> FALSE, group1 |-> <<>>]

aliasTarget == <<"<rootDir>", "/", "src", "/", "$1">>

\* the absolute path of root as a string
RECURSIVE PathString(_)
PathString(p) ==
    IF p = <<>> THEN <<>> ELSE <<"/", Head(p)[1]>> \o PathString(Tail(p))

\* replace <rootDir> and $1 in a mapping target
RECURSIVE Substitute(_, _, _)
Substitute(target, root, group1) ==
    IF target = <<>> THEN <<>>
    ELSE (CASE Head(target) = "<rootDir>" -> PathString(root)
            [] Head(target) = "$1" -> group1
            [] OTHER -> <<Head(target)>>)
         \o Substitute(Tail(target), root, group1)

\* the name Jest resolves for a specifier: the mapping's target when the
\* pattern matches, the specifier itself when it does not
MapModuleName(root, spec) ==
    LET m == AliasCapture(spec)
    IN  IF m.matched
        THEN [done |-> TRUE, mapped |-> TRUE, name |-> Substitute(aliasTarget, root, m.group1)]
        ELSE [done |-> TRUE, mapped |-> FALSE, name |-> spec]

\* ------------------------------------------------------------ eslint.config
\* mutant: the React rules as the plugin's recommended preset sets them
reactRulesRecommended ==
    [ react_in_jsx_scope |-> "error",
      prop_types |-> "error",
      jsx_uses_react |-> "error",
      jsx_uses_vars |-> "error",
      jsx_no_target_blank |-> "error",
      display_name |-> "error",
      jsx_sort_props |-> "off" ]

reactRules ==
    [ react_in_jsx_scope |-> "off",
      prop_types |-> "off",
      jsx_uses_react |-> "off",
      jsx_uses_vars |-> "error",
      jsx_no_target_blank |-> "error",
      display_name |-> "off",
      jsx_sort_props |-> "warn" ]

\* mutant: the TypeScript rules as the plugin's recommended preset sets them
typescriptRulesRecommended ==
    [ no_unused_vars |-> "error",
      no_explicit_any |-> "error",
      explicit_function_return_type |-> "off",
      explicit_module_boundary_types |-> "off",
      no_empty_interface |-> "off",
      no_non_null_assertion |-> "off",
      consistent_type_imports |-> "off" ]

\* the @typescript-eslint rules of the block
typescriptRules ==
    [ no_unused_vars |-> "error",
      no_explicit_any |-> "warn",
      explicit_function_return_type |-> "off",
      explicit_module_boundary_types |-> "off",
      no_empty_interface |-> "off",
      no_non_null_assertion |-> "warn",
      consistent_type_imports |-> "error" ]

\* mutant: the accessibility rules without the rule on anchors
a11yRulesNoAnchor ==
    [ alt_text |-> "error",
      anchor_is_valid |-> "off",
      aria_props |-> "error",
      aria_proptypes |-> "error",
      aria_unsupported_elements |-> "error",
      role_has_required_aria_props |-> "error",
      role_supports_aria_props |-> "error" ]

\* the jsx-a11y rules of the block
a11yRules ==
    [ alt_text |-> "error",
      anchor_is_valid |-> "error",
      aria_props |-> "error",
      aria_proptypes |-> "error",
      aria_unsupported_elements |-> "error",
      role_has_required_aria_props |-> "error",
      role_supports_aria_props |-> "error" ]

\* the other rules of the block for '**/*.{js,jsx,ts,tsx,mjs}' (severity only)
otherRules ==
    [ rules_of_hooks |-> "error",
      exhaustive_deps |-> "warn",
      no_html_link_for_pages |-> "error",
      no_img_element |-> "error",
      no_sync_scripts |-> "error",
      no_head_element |-> "error",
      no_unwanted_polyfillio |-> "error",
      no_page_custom_font |-> "error",
      no_duplicate_head |-> "error",
      import_order |-> "error",
      import_no_duplicates |-> "error",
      import_no_unresolved |-> "error",
      import_no_cycle |-> "warn",
      import_newline_after_import |-> "error",
      no_console |-> "warn",
      no_debugger |-> "error",
      no_alert |-> "warn",
      prefer_const |-> "error",
      no_var |-> "error",
      object_shorthand |-> "error",
      no_nested_ternary |-> "warn",
      no_unneeded_ternary |-> "error",
      prefer_template |-> "error",
      template_curly_spacing |-> "error",
      arrow_body_style |-> "error",
      prettier_prettier |-> "error" ]

eslintRules == reactRules @@ typescriptRules @@ a11yRules @@ otherRules

LintedExts == {"js", "jsx", "ts", "tsx", "mjs"}
eslintFiles == { <<GlobStar, StarDot({<<e>> : e \in LintedExts})>> }

eslintIgnores ==
    { <<GlobStar, Lit(Seg("node_modules")), GlobStar>>,
      <<GlobStar, Lit(DotNext), GlobStar>>,
      <<GlobStar, Lit(Seg("out")), GlobStar>>,
      <<GlobStar, Lit(Seg("build")), GlobStar>>,
      <<GlobStar, Lit(Seg("dist")), GlobStar>>,
      <<GlobStar, Lit(Seg("public")), GlobStar>>,
      <<GlobStar, Lit(<<"", "vercel">>), GlobStar>>,
      <<GlobStar, Lit(<<"", "turbo">>), GlobStar>>,
      <<GlobStar, Lit(Seg("coverage")), GlobStar>>,
      <<GlobStar, StarDot({<<"config", "js">>})>>,
      <<GlobStar, StarDot({<<"config", "mjs">>})>>,
      <<GlobStar, StarDot({<<"config", "ts">>})>>,
      <<GlobStar, Lit(<<"next-env", "d", "ts">>)>>,
      <<GlobStar, StarDot({<<"test", "ts">>})>>,
      <<GlobStar, StarDot({<<"test", "tsx">>})>>,
      <<GlobStar, Lit(Seg("tests")), GlobStar>>,
      <<GlobStar, Lit(Seg("__tests__")), GlobStar>> }

\* the flat config array, in order: the plugin block, the files block, the
\* ignores block (an object with only "ignores" ignores globally)
eslintConfig ==
    << [files |-> {<<GlobStar>>}, rules |-> <<>>, ignores |-> {}],
       [files |-> eslintFiles, rules |-> eslintRules, ignores |-> {}],
       [files |-> {<<GlobStar>>}, rules |-> <<>>, ignores |-> eslintIgnores] >>

\* rel is the path relative to the directory of the config file
EslintIgnored(rel) ==
    \E i \in 1..Len(eslintConfig) : \E g \in eslintConfig[i].ignores : GlobMatch(g, rel)

BlockApplies(i, rel) == \E g \in eslintConfig[i].files : GlobMatch(g, rel)

\* a file is linted when it is not ignored and a block naming files matches it
Linted(rel) ==
    /\ ~EslintIgnored(rel)
    /\ \E i \in 1..Len(eslintConfig) :
          eslintConfig[i].files # {<<GlobStar>>} /\ BlockApplies(i, rel)

\* the severity of a rule for a file: the last block that applies and sets it
Severity(rel, rule) ==
    LET setters == {i \in 1..Len(eslintConfig) :
                        BlockApplies(i, rel) /\ rule \in DOMAIN eslintConfig[i].rules}
    IN  IF setters = {} THEN "off"
        ELSE eslintConfig[CHOOSE i \in setters : \A j \in setters : j <= i].rules[rule]

\* the accessibility requirements of the style guide, and for each the
\* jsx-a11y rules that check it (anchor-is-valid: an anchor without a valid
\* href cannot be reached or activated from the keyboard)
a11yRequirements == {"altText", "ariaProps", "roleAttributes", "keyboardNavigation"}

a11yRulesFor ==
    [ altText |-> {"alt_text"},
      ariaProps |-> {"aria_props", "aria_proptypes", "aria_unsupported_elements"},
      roleAttributes |-> {"role_has_required_aria_props", "role_supports_aria_props"},
      keyboardNavigation |-> {"anchor_is_valid"} ]

\* the requirements that a rule at severity error enforces for a file
A11yEnforced(rel) ==
    {q \in a11yRequirements : \E r \in a11yRulesFor[q] : Severity(rel, r) = "error"}

\* --------------------------------------------------------------- import/order
\* module specifiers as segments between '/', in the order of alphabetize
\* (asc, caseInsensitive: segment by segment)
SpecifierOrder ==
    << <<".", "UserCard">>, <<"..", "utils">>, <<"@", "hooks">>, <<"@", "types">>,
       <<"date-fns">>, <<"fs">>, <<"next", "navigation">>, <<"react">> >>

ImportSpecifiers == {SpecifierOrder[i] : i \in DOMAIN SpecifierOrder}
Alpha(m) == CHOOSE i \in DOMAIN SpecifierOrder : SpecifierOrder[i] = m

\* an import declaration: `import ... from m` or `import type ... from m`
Imports == [module : ImportSpecifiers, typeOnly : BOOLEAN]

\* the kind of module a specifier names
ImportType(m) ==
    CASE m[1] = "." -> "sibling"
      [] m[1] = ".." -> "parent"
      [] m[1] = "@" -> "internal"
      [] m[1] = "fs" -> "builtin"
      [] OTHER -> "external"

\* groups: the rank of each group, [parent, sibling] sharing one
importGroups ==
    [ builtin |-> 0, external |-> 1, internal |-> 2, parent |-> 3, sibling |-> 3,
      index |-> 4, object |-> 5, type |-> 6 ]

\* pathGroups, in order; position "before" counts back from the group, the
\* first entry of a group furthest
pathGroups ==
    << [pattern |-> <<"react">>, rest |-> FALSE, group |-> "external", position |-> 0 - 2],
       [pattern |-> <<"next">>, rest |-> TRUE, group |-> "external", position |-> 0 - 1],
       [pattern |-> <<"@">>, rest |-> TRUE, group |-> "internal", position |-> 0] >>

\* mutant: type imports kept out of the path groups
excludedWithType == {"react", "next", "type"}

pathGroupsExcludedImportTypes == {"react", "next"}

\* 'react' matches itself, 'next/**' and '@/**' what lies below
PathGroupMatches(g, m) ==
    /\ Len(m) >= Len(g.pattern)
    /\ SubSeq(m, 1, Len(g.pattern)) = g.pattern
    /\ IF g.rest THEN Len(m) > Len(g.pattern) ELSE Len(m) = Len(g.pattern)

RankScale == 10

\* the rank of an import: the first path group matching its specifier unless
\* its import type is excluded, else the group of its import type
ImportRank(imp) ==
    LET impType == IF imp.typeOnly THEN "type" ELSE ImportType(imp.module)
        hits == {i \in DOMAIN pathGroups : PathGroupMatches(pathGroups[i], imp.module)}
    IN  IF impType \notin pathGroupsExcludedImportTypes /\ hits # {}
        THEN LET g == pathGroups[CHOOSE i \in hits : \A j \in hits : i <= j]
             IN  importGroups[g.group] * RankScale + g.position
        ELSE importGroups[impType] * RankScale

\* the second of two imports is out of order after the first
OutOfOrder(first, second) ==
    \/ ImportRank(second) < ImportRank(first)
    \/ /\ ImportRank(second) = ImportRank(first)
       /\ Alpha(second.module) < Alpha(first.module)

\* ------------------------------------------- @typescript-eslint/no-unused-vars
MaxNameLen == 2
NameChars == {"_", "a"}
Names == UNION {[1..n -> NameChars] : n \in 1..MaxNameLen}
DeclKinds == {"var", "arg", "caught"}
Decls == [kind : DeclKinds, name : Names, used : BOOLEAN, beforeUsedArg : BOOLEAN]

\* mutant: the pattern without its anchor, '_' anywhere in the name
IgnoredAnywhere(name) == \E i \in DOMAIN name : name[i] = "_"

\* argsIgnorePattern, varsIgnorePattern, caughtErrorsIgnorePattern: '^_'
IgnorePattern(name) == name[1] = "_"

\* what the rule checks by default: every variable, the arguments after the
\* last used one; caught errors by the default of the installed version
Checked(d, caughtErrors) ==
    CASE d.kind = "var" -> TRUE
      [] d.kind = "arg" -> ~d.beforeUsedArg
      [] d.kind = "caught" -> caughtErrors = "all"

Unused(d, caughtErrors) ==
    IF ~d.used /\ Checked(d, caughtErrors) /\ ~IgnorePattern(d.name)
    THEN eslintRules["no_unused_vars"]
    ELSE "none"

\* -------------------------------------------------------------- GitHub issues
\* mutant: a lifecycle that closes an issue without review
lifecycleNoReview == <<"Creation", "Triage", "Development", "Closure">>

\* "Issue Lifecycle"
lifecycle == <<"Creation", "Triage", "Development", "Review", "Closure">>

\* the label families of "Labels"
IssueLabels == {"priority", "type", "status"}

\* mutant: the required fields only, no duplicate check
FieldsValid(i) ==
    /\ i.title # <<>>
    /\ i.description
    /\ i.labels # {}

\* "Automation Guidelines": the required fields are valid, and existing
\* issues have been searched and hold no duplicate
CanCreate(i) ==
    /\ i.title # <<>>             \* title must be non-empty
    /\ i.description             \* body must include description
    /\ i.labels # {}             \* at least one label
    /\ i.duplicateChecked        \* check for duplicate issues before creation
    /\ ~i.duplicate

\* ------------------------------------------------------ PR creation workflow
\* the flowchart of "PR Creation Workflow": nodes and arrows
PrNodes ==
    {"A", "B", "C", "D", "E", "F", "G", "H", "B1", "B2", "B3", "D1", "D2", "D3"}

\* mutant: an arrow from the summary straight to the push
prEdgesShortcut ==
    { <<"A", "B">>, <<"B", "C">>, <<"C", "D">>, <<"D", "E">>, <<"E", "F">>,
      <<"F", "G">>, <<"G", "H">>, <<"C", "F">>,
      <<"B", "B1">>, <<"B", "B2">>, <<"B", "B3">>,
      <<"D", "D1">>, <<"D1", "D2">>, <<"D2", "D3">> }

prEdges ==
    { <<"A", "B">>, <<"B", "C">>, <<"C", "D">>, <<"D", "E">>, <<"E", "F">>,
      <<"F", "G">>, <<"G", "H">>,
      <<"B", "B1">>, <<"B", "B2">>, <<"B", "B3">>,
      <<"D", "D1">>, <<"D1", "D2">>, <<"D2", "D3">> }

prLabel ==
    [ A |-> "Start PR Creation", B |-> "Analyze all commits",
      C |-> "Generate PR summary", D |-> "SELECT APPROPRIATE DIAGRAMS",
      E |-> "Create Mermaid visualizations", F |-> "Push to remote branch",
      G |-> "Create PR via gh CLI", H |-> "Return PR URL",
      B1 |-> "Review git log", B2 |-> "Diff against base branch",
      B3 |-> "Identify key changes", D1 |-> "Determine change type",
      D2 |-> "Select diagram types", D3 |-> "Generate visualizations" ]

\* ------------------------------------------------ development workflows
\* Each documented workflow is the list of its steps in the documented order;
\* a step may write tests, have them approved, or write implementation code.
Step(name, effects) == [name |-> name, effects |-> effects]

\* constitution: "Before writing code" then "During implementation"
constitutionProcess ==
    << Step("Understand existing code patterns", {}),
       Step("Check for existing reusable components/functions", {}),
       Step("Define types/interfaces properly", {}),
       Step("Write tests FIRST", {"tests"}),
       Step("Write failing tests", {"tests"}),
       Step("Get user approval on tests", {"approval"}),
       Step("Implement minimum code to pass tests", {"impl"}),
       Step("Refactor while keeping tests green", {"impl"}) >>

\* development guidelines: "Feature Development Flow"
featureDevelopmentFlow ==
    << Step("Plan", {}),
       Step("Setup", {}),
       Step("Implement", {"impl"}),
       Step("Test", {"tests"}),
       Step("Optimize", {}),
       Step("Document", {}),
       Step("Review", {}),
       Step("Deploy", {}) >>

\* task completion checklist: its numbered sections
taskCompletionChecklist ==
    << Step("Understand Requirements", {}),
       Step("Setup", {}),
       Step("Code Implementation", {"impl"}),
       Step("Testing", {"tests"}),
       Step("Code Quality Checks", {}),
       Step("Pre-Commit Verification", {}),
       Step("Documentation", {}),
       Step("Git Operations", {}),
       Step("Final Verification", {}) >>

Workflows ==
    [ constitution |-> constitutionProcess,
      guidelines |-> featureDevelopmentFlow,
      checklist |-> taskCompletionChecklist ]

\* ------------------------------------------------ before committing code
\* "Run these commands in order" of the task completion checklist
\* mutant: the order of the constitution's "After writing code"
commandsLintFirst == <<"lint", "lint:fix", "typecheck", "test", "format", "build">>

precommitCommands == <<"typecheck", "lint", "lint:fix", "format", "test", "build">>

\* the documented sequences of commands before a commit: the checklist's
\* "Run these commands in order", its "Quick Command Reference", the
\* constitution's "After writing code", the guidelines' "Before Committing Code"
precommitSequences ==
    [ checklist |-> precommitCommands,
      quickReference |-> <<"typecheck", "lint", "format", "test", "build">>,
      constitution |-> <<"lint", "lint:fix", "typecheck", "test", "format", "build">>,
      guidelines |-> <<"lint", "typecheck", "test", "format">> ]

\* the sequences whose build is "if significant changes" or "optional"
BuildOptional == {"checklist", "quickReference"}

\* the commands that rewrite source files
Rewriting == {"lint:fix", "format"}

\* rules a change may break (a sample of the configured rules)
LintSample == {"no_explicit_any", "no_console", "jsx_sort_props", "no_debugger"}

\* what `pnpm lint` counts for a change at a severity
LintCount(violations, severity) ==
    Cardinality({r \in violations : eslintRules[r] = severity})

\* "Red Flags - Stop and Fix": do NOT commit if one of these holds
RedFlag(c, q) ==
    \/ q.typecheckFailed          \* TypeScript compilation fails
    \/ q.lintErrors > 0           \* ESLint shows errors (not warnings)
    \/ q.testsFailed              \* tests are failing
    \/ q.buildFailed              \* build is broken
    \/ c.sensitiveData            \* sensitive data is exposed
    \/ c.perfDegraded             \* performance degradation noticed

\* what a change may leave behind that no command reports
Leftovers == {"commentedOutCode", "todoWithoutContext"}

\* "Pre-Commit Verification": every box is ticked
Verified(c, q) ==
    /\ ~q.typecheckFailed                 \* no TypeScript errors
    /\ q.lintErrors = 0                   \* no ESLint errors
    /\ ~q.testsFailed                     \* all tests pass
    /\ ~q.buildFailed                     \* build succeeds if applicable
    /\ "no_console" \notin c.violations    \* no console.logs left
    /\ c.leftovers = {}                   \* no commented-out code, no bare TODO

\* the effect of one quality command on what is known about the change
AfterCommand(cmd, c, q) ==
    CASE cmd = "typecheck" -> [q EXCEPT !.typecheckFailed = c.typeErrors]
      [] cmd = "lint" ->
            [q EXCEPT !.lintErrors = LintCount(c.violations, "error"),
                      !.lintWarnings = LintCount(c.violations, "warn")]
      [] cmd = "test" -> [q EXCEPT !.testsFailed = c.testsFail]
      [] cmd = "build" -> [q EXCEPT !.buildFailed = c.buildBroken]
      [] OTHER -> q

\* ------------------------------------------------------------ commit workflow
\* the flowchart of "Commit Workflow": nodes, and arrows with their labels
CommitNodes == {"A", "B", "C", "D", "E", "F", "G", "H", "I", "J"}

\* mutant: an arrow from the commit history straight to the commit
commitEdgesUnstaged ==
    { <<"A", "B", "">>, <<"B", "C", "">>, <<"C", "D", "">>, <<"D", "E", "">>,
      <<"D", "F", "">>,
      <<"E", "F", "">>, <<"F", "G", "">>, <<"G", "H", "Yes">>, <<"G", "I", "No">>,
      <<"I", "J", "">>, <<"J", "H", "">> }

\* mutant: the retried commit goes back to the question
commitEdgesRetryChecked ==
    { <<"A", "B", "">>, <<"B", "C", "">>, <<"C", "D", "">>, <<"D", "E", "">>,
      <<"E", "F", "">>, <<"F", "G", "">>, <<"G", "H", "Yes">>, <<"G", "I", "No">>,
      <<"I", "J", "">>, <<"J", "G", "">> }

commitEdges ==
    { <<"A", "B", "">>, <<"B", "C", "">>, <<"C", "D", "">>, <<"D", "E", "">>,
      <<"E", "F", "">>, <<"F", "G", "">>, <<"G", "H", "Yes">>, <<"G", "I", "No">>,
      <<"I", "J", "">>, <<"J", "H", "">> }

commitLabel ==
    [ A |-> "Start", B |-> "Check git status", C |-> "Review changes with git diff",
      D |-> "Analyze commit history", E |-> "Stage relevant files",
      F |-> "Create descriptive commit", G |-> "Commit successful?",
      H |-> "Complete", I |-> "Handle pre-commit hooks",
      J |-> "Retry commit with hook changes" ]

\* the nodes at which `git commit` runs
CommitAttempts == {"F", "J"}

\* ---------------------------------------------------- authentication middleware
\* request paths as segments between '/'; "dashboardx" stands for a segment
\* that begins with the characters of "dashboard" and goes on
MaxPathSegs == 3
PathSegs == {"dashboard", "dashboardx", "api", "protected", "login", "a"}
RequestPaths == SeqsUpTo(PathSegs, MaxPathSegs)

\* request.cookies.get('auth-token'): no cookie, a cookie with an empty value,
\* a cookie with a value
Cookies == {"none", "empty", "set"}

\* the two middlewares: "Authentication Pattern" of the guidelines and
\* "Middleware-Based Auth"; config.matcher of each, '/p/:path*' as the prefix p
matcher ==
    [ authenticationPattern |-> { <<"dashboard">> },
      middlewareBasedAuth |-> { <<"dashboard">>, <<"api", "protected">> } ]

\* '/p/:path*' matches /p and every path below it
MatcherMatches(prefix, path) ==
    /\ Len(path) >= Len(prefix)
    /\ SubSeq(path, 1, Len(prefix)) = prefix

\* request.nextUrl.pathname.startsWith('/dashboard')
StartsWithDashboard(path) ==
    path # <<>> /\ path[1] \in {"dashboard", "dashboardx"}

Redirect(to) == [kind |-> "redirect", to |-> to]
NextResponseNext == [kind |-> "next", to |-> <<>>]

\* the body of middleware(request); a cookie object is truthy whatever its value
middleware(version, path, cookie) ==
    LET token == cookie # "none"
    IN  IF version = "authenticationPattern"
        THEN IF ~token THEN Redirect(<<"login">>) ELSE NextResponseNext
        ELSE IF StartsWithDashboard(path) /\ ~token
             THEN Redirect(<<"login">>)
             ELSE NextResponseNext

\* ------------------------------------------------------- POST /api/users handler
\* what request.json() yields: a rejection (no or malformed JSON), the JSON
\* value null, another JSON value that is not an object, or an object
BodyKinds == {"invalid", "null", "scalar", "object"}

\* a field of the body: absent, present and empty (falsy), present with text
FieldValues == {"absent", "empty", "text"}

Bodies ==
    [kind : {"object"}, name : FieldValues, email : FieldValues]
    \cup [kind : BodyKinds \ {"object"}, name : {"absent"}, email : {"absent"}]

\* reading body.name throws a TypeError when body is null
FieldAccessThrows(body) == body.kind = "null"

\* !body.name || !body.email
MissingRequiredFields(body) == body.name # "text" \/ body.email # "text"

\* ------------------------------------------------------------ fetchWithFallback
\* what calling the fetcher does: its promise fulfils, its promise rejects, the
\* call itself throws, or its promise never settles
Fetchers == {"resolves", "rejects", "throws", "pending"}
Values == {"v1", "v2", "v3"}

\* mutant: no catch block, the failure of the fetcher is the failure of the call
Rethrown(f) == [f EXCEPT !.pc = "done", !.settled = "rejected"]

\* catch (error): log, return fallback
CatchBlock(f) ==
    [f EXCEPT !.pc = "done", !.settled = "fulfilled", !.result = f.fallback,
              !.logged = TRUE]

\* ------------------------------------------------------------------ machine
JestIdle == [ran |-> FALSE, selected |-> FALSE, transform |-> "none"]
LintIdle ==
    [ran |-> FALSE, ignored |-> FALSE, linted |-> FALSE, reactInJsxScope |-> "off",
     explicitAny |-> "off", nonNullAssertion |-> "off", a11y |-> {}]
ResolveIdle == [done |-> FALSE, mapped |-> FALSE, name |-> <<>>]
DevIdle == [tests |-> FALSE, approved |-> FALSE, impl |-> FALSE]

FilesIdle == file = <<>> /\ jest = JestIdle /\ lint = LintIdle
ResolveIsIdle == specifier = <<>> /\ resolved = ResolveIdle
CommitStart == [node |-> "A", visited |-> {"A"}, path |-> <<"A">>, attempts |-> 0, ok |-> FALSE]
FlowIdle ==
    /\ prNode = "A" /\ prVisited = {"A"}
    /\ wf = "constitution" /\ wfStep = 0 /\ dev = DevIdle
    /\ commit = CommitStart

ChangeIdle ==
    [typeErrors |-> FALSE, violations |-> {}, testsFail |-> FALSE, buildBroken |-> FALSE,
     significant |-> FALSE, sensitiveData |-> FALSE, perfDegraded |-> FALSE,
     leftovers |-> {}]
QcIdle ==
    [done |-> 0, log |-> <<>>, typecheckFailed |-> FALSE, lintErrors |-> 0,
     lintWarnings |-> 0, testsFailed |-> FALSE, buildFailed |-> FALSE, state |-> "checking",
     seq |-> "checklist"]
GateIdle == change = ChangeIdle /\ qc = QcIdle

DeclIdle == [kind |-> "var", name |-> <<"a">>, used |-> TRUE, beforeUsedArg |-> FALSE]
ReportIdle ==
    [orderRan |-> FALSE, order |-> "none", unusedRan |-> FALSE, unused |-> "none",
     caughtErrors |-> "all"]
RulesIdle == imports = <<>> /\ decl = DeclIdle /\ report = ReportIdle

IssueIdle ==
    [title |-> <<>>, description |-> FALSE, labels |-> {}, duplicateChecked |-> FALSE,
     duplicate |-> FALSE, stage |-> "none", history |-> <<>>]
IssueIsIdle == issue = IssueIdle

LaterIdle == GateIdle /\ RulesIdle /\ IssueIsIdle

MwIdle ==
    [version |-> "guidelines", path |-> <<>>, cookie |-> "none", done |-> FALSE,
     invoked |-> FALSE, response |-> [kind |-> "none", to |-> <<>>]]
PostIdle ==
    [body |-> [kind |-> "invalid", name |-> "absent", email |-> "absent"],
     createThrows |-> FALSE, pc |-> "start", status |-> 0, createCalled |-> FALSE,
     userReturned |-> FALSE, escaped |-> FALSE]
FwfIdle ==
    [fetcher |-> "resolves", value |-> "v1", fallback |-> "v1", pc |-> "start",
     settled |-> "pending", result |-> "none", logged |-> FALSE]
ExamplesIdle == mw = MwIdle /\ post = PostIdle /\ fwf = FwfIdle

\* --- the toolchain on the files of a project
InitFiles ==
    /\ rootDir \in RootDirs
    /\ ExamplesIdle
    /\ file \in ProjectFiles(rootDir)
    /\ jest = JestIdle
    /\ lint = LintIdle
    /\ ResolveIsIdle
    /\ FlowIdle
    /\ LaterIdle

\* jest: decide whether file is a test and which transformer handles it
JestRun ==
    /\ ~jest.ran
    /\ jest' = [ran |-> TRUE,
                selected |-> IsTest(rootDir, file),
                transform |-> transform(file)]
    /\ UNCHANGED <<rootDir, file, lint, resolveVars, flowVars, laterVars, exampleVars>>

\* eslint: decide whether file is ignored, linted, and the severity of rules
EslintRun ==
    /\ ~lint.ran
    /\ LET rel == Relative(rootDir, file)
       IN  lint' = [ran |-> TRUE,
                    ignored |-> EslintIgnored(rel),
                    linted |-> Linted(rel),
                    reactInJsxScope |-> Severity(rel, "react_in_jsx_scope"),
                    explicitAny |-> Severity(rel, "no_explicit_any"),
                    nonNullAssertion |-> Severity(rel, "no_non_null_assertion"),
                    a11y |-> A11yEnforced(rel)]
    /\ UNCHANGED <<rootDir, file, jest, resolveVars, flowVars, laterVars, exampleVars>>

NextFiles == JestRun \/ EslintRun

SpecFiles == InitFiles /\ [][NextFiles]_vars

\* --- module resolution
InitResolve ==
    /\ rootDir \in RootDirs
    /\ ExamplesIdle
    /\ FilesIdle
    /\ specifier \in SeqsUpTo(SpecifierChars, MaxSpecifierLen)
    /\ resolved = ResolveIdle
    /\ FlowIdle
    /\ LaterIdle

Resolve ==
    /\ ~resolved.done
    /\ resolved' = MapModuleName(rootDir, specifier)
    /\ UNCHANGED <<rootDir, fileVars, specifier, flowVars, laterVars, exampleVars>>

NextResolve == Resolve

SpecResolve == InitResolve /\ [][NextResolve]_vars

\* --- the documented workflows
InitFlow ==
    /\ rootDir \in RootDirs
    /\ ExamplesIdle
    /\ FilesIdle
    /\ ResolveIsIdle
    /\ prNode = "A"
    /\ prVisited = {"A"}
    /\ wf \in DOMAIN Workflows
    /\ wfStep = 0
    /\ dev = DevIdle
    /\ commit = CommitStart
    /\ LaterIdle

\* the author follows one arrow of the PR creation flowchart
PrStep ==
    /\ \E n \in PrNodes :
          /\ <<prNode, n>> \in prEdges
          /\ prNode' = n
          /\ prVisited' = prVisited \cup {n}
    /\ UNCHANGED <<rootDir, fileVars, resolveVars, wf, wfStep, dev, commit, laterVars, exampleVars>>

\* the developer carries out the next step of the workflow
DevStep ==
    /\ wfStep < Len(Workflows[wf])
    /\ LET st == Workflows[wf][wfStep + 1]
       IN  dev' = [tests |-> dev.tests \/ "tests" \in st.effects,
                   approved |-> dev.approved \/ "approval" \in st.effects,
                   impl |-> dev.impl \/ "impl" \in st.effects]
    /\ wfStep' = wfStep + 1
    /\ UNCHANGED <<rootDir, fileVars, resolveVars, prNode, prVisited, wf, commit, laterVars, exampleVars>>

\* the committer follows one arrow of the commit flowchart: out of the question
\* the arrow whose label answers it; a commit or a retried commit may succeed
\* or be rejected by the pre-commit hooks
CommitStep ==
    /\ \E e \in commitEdges :
          /\ e[1] = commit.node
          /\ e[3] # "" => (e[3] = "Yes") = commit.ok
          /\ \E ok \in BOOLEAN :
                /\ e[2] \notin CommitAttempts => ok = commit.ok
                /\ commit' = [node |-> e[2],
                              visited |-> commit.visited \cup {e[2]},
                              path |-> Append(commit.path, e[2]),
                              attempts |-> IF e[2] \in CommitAttempts
                                           THEN commit.attempts + 1 ELSE commit.attempts,
                              ok |-> ok]
    /\ UNCHANGED <<rootDir, fileVars, resolveVars, prNode, prVisited, wf, wfStep, dev, laterVars, exampleVars>>

NextFlow == PrStep \/ DevStep \/ CommitStep

SpecFlow == InitFlow /\ [][NextFlow]_vars

\* the committer does not abandon the workflow: an arrow that can be followed
\* is followed
SpecFlowFair == InitFlow /\ [][NextFlow]_vars /\ WF_vars(CommitStep)

\* --- the quality gate before a commit
Changes ==
    [typeErrors : BOOLEAN, violations : SUBSET LintSample, testsFail : BOOLEAN,
     buildBroken : BOOLEAN, significant : BOOLEAN, sensitiveData : BOOLEAN,
     perfDegraded : BOOLEAN, leftovers : SUBSET Leftovers]

InitGate ==
    /\ rootDir \in RootDirs
    /\ ExamplesIdle
    /\ FilesIdle
    /\ ResolveIsIdle
    /\ FlowIdle
    /\ change \in Changes
    /\ qc = QcIdle
    /\ RulesIdle
    /\ IssueIsIdle

\* run the next quality command; the build runs for significant changes only;
\* lint:fix rewrites the sources and removes the issues it can fix
RunCommand ==
    /\ qc.state = "checking"
    /\ qc.done < Len(precommitSequences[qc.seq])
    /\ LET cmd == precommitSequences[qc.seq][qc.done + 1]
           skipped == cmd = "build" /\ qc.seq \in BuildOptional /\ ~change.significant
           q1 == IF skipped THEN qc
                 ELSE [AfterCommand(cmd, change, qc) EXCEPT !.log = Append(qc.log, cmd)]
       IN  /\ qc' = [q1 EXCEPT !.done = qc.done + 1]
           /\ IF cmd = "lint:fix"
              THEN \E fixed \in SUBSET change.violations :
                      change' = [change EXCEPT !.violations = change.violations \ fixed]
              ELSE change' = change
    /\ UNCHANGED <<rootDir, fileVars, resolveVars, flowVars, ruleVars, issue, exampleVars>>

\* all commands have run, every box is ticked and no red flag is up: commit
Commit ==
    /\ qc.state = "checking"
    /\ qc.done = Len(precommitSequences[qc.seq])
    /\ Verified(change, qc)
    /\ ~RedFlag(change, qc)
    /\ qc' = [qc EXCEPT !.state = "committed"]
    /\ UNCHANGED <<rootDir, fileVars, resolveVars, flowVars, change, ruleVars, issue, exampleVars>>

\* a box is left unticked or a red flag is up: stop and fix, nothing is committed
StopAndFix ==
    /\ qc.state = "checking"
    /\ qc.done = Len(precommitSequences[qc.seq])
    /\ (RedFlag(change, qc) \/ ~Verified(change, qc))
    /\ qc' = [qc EXCEPT !.state = "stopped"]
    /\ UNCHANGED <<rootDir, fileVars, resolveVars, flowVars, change, ruleVars, issue, exampleVars>>

NextGate == RunCommand \/ Commit \/ StopAndFix

SpecGate == InitGate /\ [][NextGate]_vars

\* the same gate, following any one of the documented sequences
InitSequences ==
    /\ rootDir \in RootDirs
    /\ ExamplesIdle
    /\ FilesIdle
    /\ ResolveIsIdle
    /\ FlowIdle
    /\ change \in Changes
    /\ \E s \in DOMAIN precommitSequences : qc = [QcIdle EXCEPT !.seq = s]
    /\ RulesIdle
    /\ IssueIsIdle

SpecSequences == InitSequences /\ [][NextGate]_vars

\* --- the import-order and unused-variable rules on a linted file
InitRules ==
    /\ rootDir \in RootDirs
    /\ ExamplesIdle
    /\ FilesIdle
    /\ ResolveIsIdle
    /\ FlowIdle
    /\ GateIdle
    /\ imports \in [1..2 -> Imports]
    /\ decl \in {d \in Decls : d.beforeUsedArg => d.kind = "arg"}
    /\ report = ReportIdle
    /\ IssueIsIdle

LintImports ==
    /\ ~report.orderRan
    /\ report' = [report EXCEPT
                    !.orderRan = TRUE,
                    !.order = IF OutOfOrder(imports[1], imports[2])
                              THEN eslintRules["import_order"] ELSE "none"]
    /\ UNCHANGED <<rootDir, fileVars, resolveVars, flowVars, gateVars, imports, decl, issue, exampleVars>>

LintDecl ==
    /\ ~report.unusedRan
    /\ \E caughtErrors \in {"all", "none"} :
          report' = [report EXCEPT
                        !.unusedRan = TRUE,
                        !.caughtErrors = caughtErrors,
                        !.unused = Unused(decl, caughtErrors)]
    /\ UNCHANGED <<rootDir, fileVars, resolveVars, flowVars, gateVars, imports, decl, issue, exampleVars>>

NextRules == LintImports \/ LintDecl

SpecRules == InitRules /\ [][NextRules]_vars

\* --- creating an issue programmatically, and its lifecycle
IssueDrafts ==
    [title : {<<>>, <<"title">>}, description : BOOLEAN, labels : SUBSET IssueLabels,
     duplicateChecked : {FALSE}, duplicate : BOOLEAN, stage : {"none"}, history : {<<>>}]

InitIssue ==
    /\ rootDir \in RootDirs
    /\ ExamplesIdle
    /\ FilesIdle
    /\ ResolveIsIdle
    /\ FlowIdle
    /\ GateIdle
    /\ RulesIdle
    /\ issue \in IssueDrafts

\* "Provide fallback for missing information"
ProvideFallback ==
    /\ issue.stage = "none"
    /\ \/ issue.title = <<>> /\ issue' = [issue EXCEPT !.title = <<"title">>]
       \/ ~issue.description /\ issue' = [issue EXCEPT !.description = TRUE]
       \/ issue.labels = {} /\ \E l \in IssueLabels : issue' = [issue EXCEPT !.labels = {l}]
    /\ UNCHANGED <<rootDir, fileVars, resolveVars, flowVars, gateVars, ruleVars, exampleVars>>

\* "Check for duplicate issues before creation"
CheckDuplicates ==
    /\ issue.stage = "none"
    /\ ~issue.duplicateChecked
    /\ issue' = [issue EXCEPT !.duplicateChecked = TRUE]
    /\ UNCHANGED <<rootDir, fileVars, resolveVars, flowVars, gateVars, ruleVars, exampleVars>>

CreateIssue ==
    /\ issue.stage = "none"
    /\ CanCreate(issue)
    /\ issue' = [issue EXCEPT !.stage = lifecycle[1], !.history = <<lifecycle[1]>>]
    /\ UNCHANGED <<rootDir, fileVars, resolveVars, flowVars, gateVars, ruleVars, exampleVars>>

\* the issue moves to the next stage of the lifecycle
Advance ==
    /\ issue.stage # "none"
    /\ Len(issue.history) < Len(lifecycle)
    /\ LET next == lifecycle[Len(issue.history) + 1]
       IN  issue' = [issue EXCEPT !.stage = next, !.history = Append(issue.history, next)]
    /\ UNCHANGED <<rootDir, fileVars, resolveVars, flowVars, gateVars, ruleVars, exampleVars>>

NextIssue == ProvideFallback \/ CheckDuplicates \/ CreateIssue \/ Advance

SpecIssue == InitIssue /\ [][NextIssue]_vars

\* --- a request arriving at an application with the authentication middleware
InitMiddleware ==
    /\ rootDir \in RootDirs
    /\ FilesIdle
    /\ ResolveIsIdle
    /\ FlowIdle
    /\ LaterIdle
    /\ \E v \in DOMAIN matcher, p \in RequestPaths, c \in Cookies :
          mw = [MwIdle EXCEPT !.version = v, !.path = p, !.cookie = c]
    /\ post = PostIdle
    /\ fwf = FwfIdle

\* the framework runs the middleware on the paths its matcher matches, and on
\* no other
HandleRequest ==
    /\ ~mw.done
    /\ LET invoked == \E m \in matcher[mw.version] : MatcherMatches(m, mw.path)
       IN  mw' = [mw EXCEPT
                    !.done = TRUE,
                    !.invoked = invoked,
                    !.response = IF invoked
                                 THEN middleware(mw.version, mw.path, mw.cookie)
                                 ELSE mw.response]
    /\ UNCHANGED <<rootDir, fileVars, resolveVars, flowVars, laterVars, post, fwf>>

NextMiddleware == HandleRequest

SpecMiddleware == InitMiddleware /\ [][NextMiddleware]_vars

\* --- a request handled by POST /api/users, from one await to the next
InitPost ==
    /\ rootDir \in RootDirs
    /\ FilesIdle
    /\ ResolveIsIdle
    /\ FlowIdle
    /\ LaterIdle
    /\ mw = MwIdle
    /\ \E b \in Bodies, t \in BOOLEAN :
          post = [PostIdle EXCEPT !.body = b, !.createThrows = t]
    /\ fwf = FwfIdle

\* const body = await request.json(); a rejection goes to the catch block
PostParse ==
    /\ post.pc = "start"
    /\ post' = IF post.body.kind = "invalid"
               THEN [post EXCEPT !.pc = "done", !.status = 500]
               ELSE [post EXCEPT !.pc = "parsed"]
    /\ UNCHANGED <<rootDir, fileVars, resolveVars, flowVars, laterVars, mw, fwf>>

\* the validation, up to the call of createUser(body)
PostValidate ==
    /\ post.pc = "parsed"
    /\ post' = CASE FieldAccessThrows(post.body) ->
                      [post EXCEPT !.pc = "done", !.status = 500]
                 [] ~FieldAccessThrows(post.body) /\ MissingRequiredFields(post.body) ->
                      [post EXCEPT !.pc = "done", !.status = 400]
                 [] OTHER ->
                      [post EXCEPT !.pc = "creating", !.createCalled = TRUE]
    /\ UNCHANGED <<rootDir, fileVars, resolveVars, flowVars, laterVars, mw, fwf>>

\* const user = await createUser(body), and the response
PostCreate ==
    /\ post.pc = "creating"
    /\ post' = IF post.createThrows
               THEN [post EXCEPT !.pc = "done", !.status = 500]
               ELSE [post EXCEPT !.pc = "done", !.status = 201, !.userReturned = TRUE]
    /\ UNCHANGED <<rootDir, fileVars, resolveVars, flowVars, laterVars, mw, fwf>>

NextPost == PostParse \/ PostValidate \/ PostCreate

SpecPost == InitPost /\ [][NextPost]_vars

\* --- a call of fetchWithFallback(fetcher, fallback)
InitFetch ==
    /\ rootDir \in RootDirs
    /\ FilesIdle
    /\ ResolveIsIdle
    /\ FlowIdle
    /\ LaterIdle
    /\ mw = MwIdle
    /\ post = PostIdle
    /\ \E k \in Fetchers, v \in Values, fb \in Values :
          fwf = [FwfIdle EXCEPT !.fetcher = k, !.value = v, !.fallback = fb]

\* fetcher() is called inside the try block
FetchCall ==
    /\ fwf.pc = "start"
    /\ fwf' = IF fwf.fetcher = "throws"
              THEN CatchBlock(fwf)
              ELSE [fwf EXCEPT !.pc = "awaiting"]
    /\ UNCHANGED <<rootDir, fileVars, resolveVars, flowVars, laterVars, mw, post>>

\* the awaited promise settles: return its value, or go to the catch block
FetchSettle ==
    /\ fwf.pc = "awaiting"
    /\ fwf.fetcher \in {"resolves", "rejects"}
    /\ fwf' = IF fwf.fetcher = "rejects"
              THEN CatchBlock(fwf)
              ELSE [fwf EXCEPT !.pc = "done", !.settled = "fulfilled", !.result = fwf.value]
    /\ UNCHANGED <<rootDir, fileVars, resolveVars, flowVars, laterVars, mw, post>>

NextFetch == FetchCall \/ FetchSettle

SpecFetch == InitFetch /\ [][NextFetch]_vars

\* ------------------------------------------------------------------- claims
UnderRoot(dirName) ==
    /\ Len(file) > Len(rootDir) + 1
    /\ file[Len(rootDir) + 1] = Seg(dirName)

FileName == Last(file)
RelDirs == SubSeq(file, Len(rootDir) + 1, Len(file) - 1)
InDirNamed(names) == \E i \in 1..Len(RelDirs) : RelDirs[i] \in names
TestNamed ==
    /\ Len(FileName) >= 3
    /\ FileName[Len(FileName) - 1] \in {"test", "spec"}
    /\ Ext(FileName) \in TestExts

\* C1: no file under <rootDir>/tests/ is selected as a test, whatever its name
C1_RootTestsNeverSelected ==
    (jest.ran /\ UnderRoot("tests")) => ~jest.selected

C1_Witness ==
    /\ jest.ran /\ UnderRoot("tests") /\ ~jest.selected
    /\ FileName = <<"page", "test", "ts">>

\* C2: a file is selected as a test only if its path is under <rootDir>/src/
C2_SelectedOnlyUnderSrc ==
    (jest.ran /\ jest.selected) => UnderRoot("src")

C2_Witness ==
    /\ jest.ran /\ ~jest.selected /\ TestNamed
    /\ Len(file) = Len(rootDir) + 1

\* C3: every file under <rootDir>/src/ in a __tests__ folder (js, jsx, ts, tsx)
\* or named *.test.<ext> / *.spec.<ext> is selected as a test
C3_SrcTestFilesSelected ==
    (/\ jest.ran
     /\ UnderRoot("src")
     /\ \/ TestNamed
        \/ (InDirNamed({Seg("__tests__")}) /\ Ext(FileName) \in TestExts))
    => jest.selected

\* C4 as stated: every specifier "@/X", X any string, resolves to <rootDir>/src/X
IsAlias == Len(specifier) >= 2 /\ specifier[1] = "@" /\ specifier[2] = "/"
AliasRest == SubSeq(specifier, 3, Len(specifier))
C4_AnyAliasResolves ==
    (resolved.done /\ IsAlias)
    => resolved.name = PathString(rootDir) \o <<"/", "src", "/">> \o AliasRest

\* C4 amended: every specifier "@/X" whose X holds no line terminator resolves
\* to <rootDir>/src/X
C4_AliasResolves ==
    (/\ resolved.done
     /\ IsAlias
     /\ \A i \in 1..Len(AliasRest) : ~IsLineTerminator(AliasRest[i]))
    => resolved.name = PathString(rootDir) \o <<"/", "src", "/">> \o AliasRest

C4_Witness ==
    /\ resolved.done
    /\ specifier = <<"@", "/", "a">>
    /\ resolved.name = PathString(rootDir) \o <<"/", "src", "/", "a">>

\* C5: every file Jest selects as a test is ignored by ESLint
C5_TestsIgnoredByEslint ==
    (jest.ran /\ lint.ran /\ jest.selected) => (lint.ignored /\ ~lint.linted)

\* C6: every file under a directory named node_modules, .next, out, build,
\* dist, public or coverage is neither linted nor run as a test
IgnoredDirNames ==
    {Seg("node_modules"), DotNext, Seg("out"), Seg("build"), Seg("dist"),
     Seg("public"), Seg("coverage")}
C6_BuildDirsIgnoredByBoth ==
    (jest.ran /\ lint.ran /\ InDirNamed(IgnoredDirNames))
    => (lint.ignored /\ ~lint.linted /\ ~jest.selected)

\* C7: for every linted file (js, jsx, ts, tsx, mjs) the severity of
\* react/react-in-jsx-scope is off
C7_ReactInScopeOff ==
    (lint.ran /\ lint.linted /\ Ext(FileName) \in LintedExts)
    => lint.reactInJsxScope = "off"

C7_Witness ==
    /\ lint.ran /\ lint.linted /\ Ext(FileName) = "tsx"
    /\ lint.reactInJsxScope = "off"

\* C8 as stated: every path ending in .ts or .tsx is mapped to ts-jest by the
\* custom rule, and no path with another extension is
C8_EveryTsFileToTsJest ==
    jest.ran =>
        /\ Ext(FileName) \in {"ts", "tsx"} => jest.transform = "ts-jest"
        /\ Ext(FileName) \in {"js", "jsx", "mjs", "json"} => jest.transform = "none"

\* C8 amended: every path ending in .ts or .tsx that holds no line terminator
\* is mapped to ts-jest by the custom rule, and no path with another extension is
C8_TsFilesToTsJest ==
    jest.ran =>
        /\ (Ext(FileName) \in {"ts", "tsx"} /\ ~HasLineTerminator(file))
              => jest.transform = "ts-jest"
        /\ Ext(FileName) \in {"js", "jsx", "mjs", "json"} => jest.transform = "none"

C8_Witness ==
    /\ jest.ran /\ Ext(FileName) = "tsx" /\ jest.transform = "ts-jest"

\* C9: in every documented workflow, implementation code is written only
\* after the tests for the feature are written and approved
C9_TestsBeforeImplementation ==
    dev.impl => (dev.tests /\ dev.approved)

\* C10: "Create PR via gh CLI" is reached only after "SELECT APPROPRIATE
\* DIAGRAMS" and "Create Mermaid visualizations"
C10_DiagramsBeforePr ==
    prLabel[prNode] = "Create PR via gh CLI"
    => \E d, e \in prVisited :
          /\ prLabel[d] = "SELECT APPROPRIATE DIAGRAMS"
          /\ prLabel[e] = "Create Mermaid visualizations"

C10_Witness ==
    prLabel[prNode] = "Create PR via gh CLI" /\ "E" \in prVisited

\* C11: a change is committed only when the linter reported zero errors and
\* zero warnings
C11_NoWarningsCommitted ==
    qc.state = "committed" => (qc.lintErrors = 0 /\ qc.lintWarnings = 0)

\* C12: the quality commands run in the order typecheck, lint, lint:fix,
\* format, test, then build for significant changes, and the commit happens
\* only if TypeScript compilation, lint (errors), tests and build did not fail
ClaimedOrder == <<"typecheck", "lint", "lint:fix", "format", "test", "build">>
C14_AnyAndNonNullWarn ==
    (lint.ran /\ lint.linted)
    => (lint.explicitAny = "warn" /\ lint.nonNullAssertion = "warn")

C14_Witness ==
    /\ lint.ran /\ lint.linted /\ Ext(FileName) = "ts"
    /\ lint.explicitAny = "warn" /\ lint.nonNullAssertion = "warn"

ClaimedRank(imp) ==
    CASE imp.typeOnly -> 5
      [] ImportType(imp.module) = "builtin" -> 0
      [] imp.module[1] \in {"react", "next"} -> 1
      [] ImportType(imp.module) = "external" -> 2
      [] ImportType(imp.module) = "internal" -> 3
      [] OTHER -> 4

C16_ImportOrderAsDocumented ==
    report.orderRan =>
        /\ ClaimedRank(imports[2]) < ClaimedRank(imports[1]) => report.order = "error"
        /\ ClaimedRank(imports[1]) < ClaimedRank(imports[2]) => report.order = "none"

\* C16, imports that are not type imports: the rule ranks them as documented
\* and reports a pair out of that order as an error
C16_ValueImportsAsDocumented ==
    (report.orderRan /\ ~imports[1].typeOnly /\ ~imports[2].typeOnly) =>
        /\ ClaimedRank(imports[2]) < ClaimedRank(imports[1]) => report.order = "error"
        /\ ClaimedRank(imports[1]) < ClaimedRank(imports[2]) => report.order = "none"

\* C17: an unused variable, function argument or caught error is reported as
\* an error unless its name starts with '_', and then no unused-variable
\* diagnostic is reported
StartsWithUnderscore(name) == name[1] = "_"

C17_EveryUnusedReported ==
    (report.unusedRan /\ ~decl.used) =>
        IF StartsWithUnderscore(decl.name)
        THEN report.unused = "none"
        ELSE report.unused = "error"

\* C17, amended: an unused variable, or an unused function argument that no
\* used argument follows, is reported as an error unless its name starts with
\* '_', and so is an unused caught error where the rule checks caught errors;
\* a declaration whose name starts with '_' gets no diagnostic
C17_UnusedReportedUnlessUnderscore ==
    (report.unusedRan /\ ~decl.used) =>
        /\ StartsWithUnderscore(decl.name) => report.unused = "none"
        /\ ( /\ ~StartsWithUnderscore(decl.name)
             /\ \/ decl.kind = "var"
                \/ decl.kind = "arg" /\ ~decl.beforeUsedArg
                \/ decl.kind = "caught" /\ report.caughtErrors = "all" )
           => report.unused = "error"

C17_Witness ==
    /\ report.unusedRan /\ ~decl.used
    /\ decl.kind = "arg" /\ ~decl.beforeUsedArg
    /\ decl.name = <<"a", "_">>
    /\ report.unused = "error"

\* C18: an issue moves through Creation, Triage, Development, Review, Closure
\* in that order: it reaches Closure only after every earlier stage, and no
\* stage is skipped
ClaimedStages == <<"Creation", "Triage", "Development", "Review", "Closure">>

C18_StagesInOrder ==
    /\ Len(issue.history) <= Len(ClaimedStages)
    /\ issue.history = SubSeq(ClaimedStages, 1, Len(issue.history))
    /\ issue.stage # "none" => issue.stage = issue.history[Len(issue.history)]
    /\ issue.stage = "Closure" => issue.history = ClaimedStages

C18_Witness ==
    /\ issue.stage = "Closure"
    /\ issue.history = ClaimedStages

\* C19: an issue is created programmatically only when its title is
\* non-empty, its body includes a description, at least one label is applied
\* and the check for duplicate issues has been made
C19_CreatedOnlyWhenValid ==
    issue.stage # "none" =>
        /\ issue.title # <<>>
        /\ issue.description
        /\ issue.labels # {}
        /\ issue.duplicateChecked

C19_Witness ==
    /\ issue.stage = "Creation"
    /\ issue.title # <<>> /\ issue.description /\ issue.labels # {}
    /\ issue.duplicateChecked

\* C20: every run of the commit workflow reaches Complete: the flow has no
\* cycle, and after a failed commit it handles the pre-commit hook changes,
\* retries the commit once and then completes
C20_CommitWorkflowCompletes ==
    /\ [][commit'.node # commit.node => commit'.node \notin commit.visited]_vars
    /\ <>(commit.node = "H")
    /\ (commit.node = "G" /\ ~commit.ok) ~> (commit.node = "I")
    /\ (commit.node = "I") ~> (commit.node = "J" /\ commit.attempts = 2)
    /\ (commit.node = "J") ~> (commit.node = "H" /\ commit.attempts = 2)

C20_Witness ==
    /\ commit.node = "H"
    /\ commit.path = <<"A", "B", "C", "D", "E", "F", "G", "I", "J", "H">>
    /\ commit.attempts = 2

\* C21: a commit is created only after git status was checked, the diff
\* reviewed, the commit history analysed and the relevant files staged, in
\* that order; a commit is attempted at most twice in one run
BeforeCommit == <<"A", "B", "C", "D", "E", "F">>

C21_CommitAfterPreparation ==
    /\ commit.attempts >= 1 =>
          /\ Len(commit.path) >= Len(BeforeCommit)
          /\ SubSeq(commit.path, 1, Len(BeforeCommit)) = BeforeCommit
    /\ commit.attempts <= 2
    /\ commit.attempts =
          Cardinality({i \in DOMAIN commit.path : commit.path[i] \in {"F", "J"}})

C21_Witness ==
    /\ commit.node = "J"
    /\ commit.attempts = 2
    /\ SubSeq(commit.path, 1, Len(BeforeCommit)) = BeforeCommit

\* C22: the commit workflow reaches Complete only when a commit attempt has
\* succeeded: a run whose retried commit also fails does not end in Complete
C22_CompleteOnlyAfterSuccess ==
    commit.node = "H" => commit.ok

\* C23: in every documented pre-commit sequence no step that rewrites source
\* files (lint:fix or format) runs after the test run
C23_NoRewriteAfterTest ==
    \A i, j \in DOMAIN qc.log :
        (qc.log[i] = "test" /\ i < j) => qc.log[j] \notin Rewriting

\* C24: a module specifier that does not start with '@/' (a scoped package
\* such as '@a/...', or a bare name) is never rewritten by the alias mapping
C24_NonAliasUntouched ==
    (resolved.done /\ ~IsAlias)
    => (~resolved.mapped /\ resolved.name = specifier)

C24_Witness ==
    /\ resolved.done
    /\ specifier = <<"@", "a", "/">>
    /\ ~resolved.mapped
    /\ resolved.name = specifier

\* C25: every request whose path the middleware's matcher matches and that
\* carries no auth-token cookie is redirected to /login; a request with the
\* cookie is passed on with NextResponse.next()
C25_MatchedWithoutCookieRedirected ==
    (mw.done /\ mw.invoked) =>
        IF mw.cookie = "none"
        THEN mw.response = [kind |-> "redirect", to |-> <<"login">>]
        ELSE mw.response.kind = "next"

\* C26: the handler returns 400 when the request body lacks name or email,
\* 201 with the created user when creation succeeds, and 500 when parsing the
\* body or creating the user throws; no exception escapes the handler and
\* createUser is never called for a body missing a required field
LacksField(body) ==
    body.kind # "invalid" /\ (body.name = "absent" \/ body.email = "absent")

C26_PostStatuses ==
    /\ ~post.escaped
    /\ LacksField(post.body) => ~post.createCalled
    /\ post.pc = "done" =>
          /\ LacksField(post.body) => post.status = 400
          /\ post.body.kind = "invalid" => post.status = 500
          /\ (post.createCalled /\ post.createThrows) => post.status = 500
          /\ (post.createCalled /\ ~post.createThrows) =>
                (post.status = 201 /\ post.userReturned)

\* C27: fetchWithFallback never rejects: it resolves to the fetcher's value
\* when the fetcher succeeds and to the given fallback when the fetcher throws
\* or rejects
C27_NeverRejects ==
    /\ fwf.settled # "rejected"
    /\ fwf.pc = "done" =>
          /\ fwf.settled = "fulfilled"
          /\ fwf.fetcher = "resolves" => fwf.result = fwf.value
          /\ fwf.fetcher \in {"throws", "rejects"} => fwf.result = fwf.fallback

C27_Witness ==
    /\ fwf.pc = "done"
    /\ fwf.fetcher = "rejects"
    /\ fwf.value # fwf.fallback
    /\ fwf.result = fwf.fallback

====
